---- MODULE Spec2Model ----
(***************************************************************************)
(* Model of business_plans/bp.py: the `bp` DataFrame accessor              *)
(* (BPAccessor.__init__) and the line-construction method BPAccessor.line, *)
(* with the per-line metadata maps read by history_size() and              *)
(* max_history_lag(); of the library simulators percent_of, actualise,    *)
(* actualise_and_cumulate, from_list, one_offs and recurring; of the       *)
(* assumption classes; and of the status element business_plans/report.py  *)
(* builds from a table (BPStatus).                                         *)
(*                                                                         *)
(* Conventions                                                             *)
(*  - Positions (start_loc, end_loc, history_size) are 0-based as in the   *)
(*    Python code; At(s, i) reads position i of a sequence.                *)
(*  - An optional argument is None (= <<>>) or Some(x) (= <<x>>).          *)
(*  - Index keys are integers; `x or y` takes y when x is None or 0.       *)
(*  - A timedelta is its number of days.                                   *)
(*  - An operator that can raise returns [exc |-> ..., val |-> ...], exc   *)
(*    being "None" when nothing was raised.                                *)
(***************************************************************************)
EXTENDS Integers, Sequences, FiniteSets, TLC

\* ------------------------------------------------------------------ bounds

\* Longest DataFrame index the model builds.
MaxLen == 2

\* ------------------------------------------------------- program constants

\* Default of argument max_history_lag and of max_history_lag(): 365 days.
DefaultMaxHistoryLag == 365

\* Default of argument default_value.
DefaultDefaultValue == 0

\* ------------------------------------------------------------ input values

\* Index keys: a negative key, the falsy key 0, a positive key.
Keys == {-1, 0, 1}

None == <<>>

Some(x) == <<x>>

\* Line names passed to line(): the empty name and two column names.
Names == {"", "a", "b"}

DefaultValues == {DefaultDefaultValue, 9}

Lags == {DefaultMaxHistoryLag, 30}

\* The history lists supplied: the first k values of 11, 12, 13, ...
HistoryList(k) == [i \in 1..k |-> 10 + i]

Histories == {None} \cup {Some(HistoryList(k)) : k \in 0..(MaxLen + 1)}

\* A caller-supplied simulator: it raises, or returns 51, 52, ... (k values).
SimulatorResult(k) == [i \in 1..k |-> 50 + i]

Simulators == {[raises |-> TRUE, result |-> <<>>]}
              \cup {[raises |-> FALSE, result |-> SimulatorResult(k)] : k \in 0..(MaxLen + 1)}

Simulations == {None} \cup {Some(f) : f \in Simulators}

OptionalKeys == {None} \cup {Some(k) : k \in Keys}

\* Every key sequence a DataFrame may be built over, increasing or not.
RECURSIVE SeqsUpTo(_, _)
SeqsUpTo(S, n) == IF n = 0 THEN {<<>>}
                  ELSE LET shorter == SeqsUpTo(S, n - 1)
                       IN shorter \cup {Append(s, x) : s \in {t \in shorter : Len(t) = n - 1}, x \in S}

IndexCandidates == SeqsUpTo(Keys, MaxLen)

\* ------------------------------------------------------------------- state

VARIABLES
    df_index,       \* df.index: the DataFrame's index, fixed at creation
    accessor,       \* "unbound" | "ok" | "ValueError": outcome of BPAccessor.__init__
    bp_name,        \* BPAccessor.name
    assumptions,    \* BPAccessor.assumptions
    columns,        \* the DataFrame's columns: name -> values (self._df[name])
    history_sizes,  \* BPAccessor._history_size
    max_history_lags, \* BPAccessor._max_history_lag
    last,           \* the most recent line() call: its arguments and outcome
    pending,        \* None, or Some(arguments) of a line() call still to be made
    sim,            \* None, or a direct call of a library simulator and its outcome
    today,          \* the current date, in days
    report          \* None, or the BPStatus element built last on the table as it is

vars == <<df_index, accessor, bp_name, assumptions, columns, history_sizes,
          max_history_lags, last, pending, sim, today, report>>

\* ------------------------------------------------------------------ helpers

At(s, i) == s[i + 1]

EmptyDict == [n \in {} |-> 0]

SetItem(d, k, v) == [x \in (DOMAIN d) \cup {k} |-> IF x = k THEN v ELSE d[x]]

Ok(v) == [exc |-> "None", val |-> v]

Raise(e) == [exc |-> e, val |-> 0]

\* Python truthiness of an optional key: None and 0 are falsy.
Truthy(opt) == opt # None /\ opt[1] # 0

\* Python truthiness of a str: the empty string is falsy.
TruthyName(name) == name # ""

\* pandas Index.is_monotonic_increasing: each key >= the one before.
is_monotonic_increasing(idx) == \A i \in 1..(Len(idx) - 1) : idx[i] <= idx[i + 1]

\* Mutant: the uniqueness test left out.
is_unique_skipped(idx) == TRUE

\* pandas Index.is_unique.
is_unique(idx) == \A i, j \in 1..Len(idx) : i # j => idx[i] # idx[j]

\* `key in index`
Contains(idx, key) == \E i \in 1..Len(idx) : idx[i] = key

\* index.get_loc(key), for a key of a unique index.
get_loc(idx, key) == (CHOOSE i \in 1..Len(idx) : idx[i] = key) - 1

\* index[i], which raises IndexError outside 0..size-1.
IndexAt(idx, i) == IF i >= 0 /\ i < Len(idx) THEN Ok(At(idx, i)) ELSE Raise("IndexError")

\* index[-1]
IndexLast(idx) == IF Len(idx) > 0 THEN Ok(idx[Len(idx)]) ELSE Raise("IndexError")

\* ------------------------------------------------------- BPAccessor.line()

NoWindow == [start_index |-> 0, end_index |-> 0, start_loc |-> 0, end_loc |-> 0,
             index_values |-> <<>>]

\* Mutant: the series starts at 0 whatever default_value is.
NewSeries_zero(idx, default_value) == [i \in 1..Len(idx) |-> 0]

\* line = pd.Series(data=default_value, dtype='float64', index=index)
NewSeries(idx, default_value) == [i \in 1..Len(idx) |-> default_value]

\* history_size as the history branch computes it: 0 for None or an empty list.
HistorySize(history) == IF history = None \/ Len(history[1]) = 0 THEN 0 ELSE Len(history[1])

\* len(history) > index.size, checked for a non-empty history only.
HistoryTooLong(idx, history) == HistorySize(history) > Len(idx)

\* Mutant: the last history value is not copied.
SetHistory_short(series, history) ==
    [i \in 1..Len(series) |-> IF i < HistorySize(history) THEN history[1][i] ELSE series[i]]

\* line.iloc[:len(history)] = history
SetHistory(series, history) ==
    [i \in 1..Len(series) |-> IF i <= HistorySize(history) THEN history[1][i] ELSE series[i]]

\* Mutant: the default start is the first key, whatever the history.
StartIndex_first(idx, simulate_from, history_size) ==
    IF Truthy(simulate_from) THEN Ok(simulate_from[1]) ELSE IndexAt(idx, 0)

\* start_index = simulate_from or index[history_size]
StartIndex(idx, simulate_from, history_size) ==
    IF Truthy(simulate_from) THEN Ok(simulate_from[1]) ELSE IndexAt(idx, history_size)

\* end_index = simulate_until or index[-1]
EndIndex(idx, simulate_until) ==
    IF Truthy(simulate_until) THEN Ok(simulate_until[1]) ELSE IndexLast(idx)

\* Mutant: index_values is the whole index, whatever the window.
IndexSlice_whole(idx, start_loc, end_loc) == idx

\* index[start_loc: end_loc + 1]
IndexSlice(idx, start_loc, end_loc) == SubSeq(idx, start_loc + 1, end_loc + 1)

\* Mutant: a one-key window is rejected too.
InvalidRange_strict(start_index, end_index) == ~(start_index < end_index)

\* not (start_index <= end_index)
InvalidRange(start_index, end_index) == ~(start_index <= end_index)

\* The simulation window: start_index, end_index, their checks, start_loc,
\* end_loc and index_values.  `at` names the statement that raised; a
\* rejected range keeps the two keys it compared.
Window(idx, simulate_from, simulate_until, history_size) ==
    LET s == StartIndex(idx, simulate_from, history_size)
    IN IF s.exc # "None" THEN [exc |-> s.exc, at |-> "start_index", w |-> NoWindow]
       ELSE IF ~Contains(idx, s.val) THEN [exc |-> "KeyError", at |-> "start_index", w |-> NoWindow]
       ELSE LET e == EndIndex(idx, simulate_until)
            IN IF e.exc # "None" THEN [exc |-> e.exc, at |-> "end_index", w |-> NoWindow]
               ELSE IF ~Contains(idx, e.val) THEN [exc |-> "KeyError", at |-> "end_index", w |-> NoWindow]
               ELSE IF InvalidRange(s.val, e.val)
                    THEN [exc |-> "ValueError", at |-> "range",
                          w |-> [NoWindow EXCEPT !.start_index = s.val, !.end_index = e.val]]
               ELSE LET start_loc == get_loc(idx, s.val)
                        end_loc == get_loc(idx, e.val)
                    IN [exc |-> "None", at |-> "",
                        w |-> [start_index |-> s.val, end_index |-> e.val,
                               start_loc |-> start_loc, end_loc |-> end_loc,
                               index_values |-> IndexSlice(idx, start_loc, end_loc)]]

\* result = simulation(self._df, line, index_values, start_index, end_index,
\*                     start_loc, end_loc), for a caller-supplied simulator.
CallSimulator(f, series, w) == IF f.raises THEN Raise("SimulatorError") ELSE Ok(f.result)

\* Mutant: only a result that is too short is rejected.
LengthMismatch_short(result, w) == Len(result) < Len(w.index_values)

\* len(result) != len(index_values)
LengthMismatch(result, w) == Len(result) # Len(w.index_values)

\* Mutant: the slice excludes end_index, as a positional slice would.
SetSlice_exclusive(series, w, result) ==
    [i \in 1..Len(series) |->
        IF i - 1 >= w.start_loc /\ i - 1 < w.end_loc THEN result[i - w.start_loc] ELSE series[i]]

\* line.loc[start_index: end_index] = result
SetSlice(series, w, result) ==
    [i \in 1..Len(series) |->
        IF i - 1 >= w.start_loc /\ i - 1 <= w.end_loc THEN result[i - w.start_loc] ELSE series[i]]

\* The body of line() up to `if name:`. The record gives the exception raised
\* ("None" when the series is returned), the statement that raised, the series,
\* history_size, whether the simulator was invoked and with which window.
BuildLine(idx, default_value, history, simulation, simulate_from, simulate_until) ==
    LET failed(e, a, c, w) == [exc |-> e, at |-> a, series |-> <<>>,
                               history_size |-> 0, called |-> c, window |-> w]
        hs == HistorySize(history)
        line0 == SetHistory(NewSeries(idx, default_value), history)
    IN IF HistoryTooLong(idx, history) THEN failed("ValueError", "history", FALSE, NoWindow)
       ELSE IF simulation = None
            THEN [exc |-> "None", at |-> "", series |-> line0, history_size |-> hs,
                  called |-> FALSE, window |-> NoWindow]
       ELSE LET win == Window(idx, simulate_from, simulate_until, hs)
            IN IF win.exc # "None" THEN failed(win.exc, win.at, FALSE, win.w)
               ELSE LET r == CallSimulator(simulation[1], line0, win.w)
                    IN IF r.exc # "None" THEN failed(r.exc, "simulation", TRUE, win.w)
                       ELSE IF LengthMismatch(r.val, win.w)
                            THEN failed("ValueError", "length", TRUE, win.w)
                       ELSE [exc |-> "None", at |-> "", series |-> SetSlice(line0, win.w, r.val),
                             history_size |-> hs, called |-> TRUE, window |-> win.w]

\* Mutant: the column is assigned before the call is known to succeed.
RegisterColumn_early(cols, name, built) ==
    IF TruthyName(name) THEN SetItem(cols, name, built.series) ELSE cols

\* if name: self._df[name] = line
RegisterColumn(cols, name, built) ==
    IF built.exc = "None" /\ TruthyName(name) THEN SetItem(cols, name, built.series) ELSE cols

\* Mutant: the `if name:` test left out.
RegisterHistorySize_unnamed(sizes, name, built) ==
    IF built.exc = "None" THEN SetItem(sizes, name, built.history_size) ELSE sizes

\* if name: self._history_size[name] = history_size
RegisterHistorySize(sizes, name, built) ==
    IF built.exc = "None" /\ TruthyName(name) THEN SetItem(sizes, name, built.history_size) ELSE sizes

\* Mutant: an existing lag is kept (setdefault instead of assignment).
RegisterMaxHistoryLag_keep(lags, name, built, max_history_lag) ==
    IF built.exc = "None" /\ TruthyName(name) /\ name \notin DOMAIN lags
    THEN SetItem(lags, name, max_history_lag) ELSE lags

\* if name: self._max_history_lag[name] = max_history_lag
RegisterMaxHistoryLag(lags, name, built, max_history_lag) ==
    IF built.exc = "None" /\ TruthyName(name) THEN SetItem(lags, name, max_history_lag) ELSE lags

\* history_size(name): self._history_size.get(name, 0)
history_size(name) == IF name \in DOMAIN history_sizes THEN history_sizes[name] ELSE 0

\* Mutant: no default for a name that has no entry.
max_history_lag_nodefault(name) ==
    IF name \in DOMAIN max_history_lags THEN max_history_lags[name] ELSE 0

\* max_history_lag(name): self._max_history_lag.get(name, timedelta(days=365))
max_history_lag(name) ==
    IF name \in DOMAIN max_history_lags THEN max_history_lags[name] ELSE DefaultMaxHistoryLag

\* ------------------------------------------------------------------ actions

NoCall == [op |-> "none", name |-> "", default_value |-> 0, history |-> None,
           simulation |-> None, simulate_from |-> None, simulate_until |-> None,
           max_history_lag |-> 0, exc |-> "None", at |-> "", series |-> <<>>,
           history_size |-> 0, called |-> FALSE, window |-> NoWindow,
           overwrote |-> FALSE]

Args(name, default_value, history, simulation, simulate_from, simulate_until, lag) ==
    [name |-> name, default_value |-> default_value, history |-> history,
     simulation |-> simulation, simulate_from |-> simulate_from,
     simulate_until |-> simulate_until, max_history_lag |-> lag]

\* Arguments other than `name` of the calls that build up a table: lines with
\* and without history, and one call for each way line() can end.
TableCalls ==
    {Args("", d, h, None, None, None, lag) :
        d \in DefaultValues, h \in {None, Some(HistoryList(1))}, lag \in Lags}
    \cup {Args("", DefaultDefaultValue, h, f, None, None, DefaultMaxHistoryLag) :
        h \in {Some(HistoryList(MaxLen + 1))},
        f \in {None}}
    \cup {Args("", DefaultDefaultValue, Some(HistoryList(1)), Some(f), None, None, DefaultMaxHistoryLag) :
        f \in {[raises |-> TRUE, result |-> <<>>],
               [raises |-> FALSE, result |-> SimulatorResult(1)]}}
    \cup {Args("", DefaultDefaultValue, None, Some([raises |-> FALSE, result |-> SimulatorResult(1)]),
               from, until, DefaultMaxHistoryLag) :
        from \in {None, Some(1)}, until \in {None, Some(-1)}}

\* Every combination of arguments, for a single call on a fresh table.
AllCalls ==
    {Args(name, d, h, f, from, until, lag) :
        name \in {"", "a"}, d \in DefaultValues, h \in Histories, f \in Simulations,
        from \in OptionalKeys, until \in OptionalKeys, lag \in Lags}

Fresh ==
    /\ df_index \in IndexCandidates
    /\ accessor = "unbound"
    /\ bp_name = ""
    /\ assumptions = <<>>
    /\ columns = EmptyDict
    /\ history_sizes = EmptyDict
    /\ max_history_lags = EmptyDict
    /\ last = NoCall

Init == Fresh /\ pending = None /\ sim = None /\ today = 0 /\ report = None

InitOneCall ==
    /\ Fresh
    /\ pending \in {Some(a) : a \in AllCalls}
    /\ sim = None
    /\ today = 0
    /\ report = None

\* BPAccessor.__init__: the first access of df.bp.
BPAccessorInit ==
    /\ accessor = "unbound"
    /\ IF ~(is_monotonic_increasing(df_index) /\ is_unique(df_index))
       THEN /\ accessor' = "ValueError"
            /\ UNCHANGED <<bp_name, assumptions, history_sizes, max_history_lags>>
       ELSE /\ accessor' = "ok"
            /\ history_sizes' = EmptyDict
            /\ max_history_lags' = EmptyDict
            /\ bp_name' = ""
            /\ assumptions' = <<>>
    /\ UNCHANGED <<df_index, columns, last, pending, sim, today, report>>

\* Whether the call replaces a registered line whose values, history size and
\* lag all differ from the new ones (recorded for the checks only).
Overwrites(name, built, lag) ==
    /\ built.exc = "None"
    /\ name \in DOMAIN columns
    /\ columns[name] # built.series
    /\ history_sizes[name] # built.history_size
    /\ max_history_lags[name] # lag

\* df.bp.line(name, default_value=, history=, simulation=, simulate_from=,
\*            simulate_until=, max_history_lag=)
Line(name, a) ==
    /\ accessor = "ok"
    /\ LET built == BuildLine(df_index, a.default_value, a.history, a.simulation,
                              a.simulate_from, a.simulate_until)
       IN /\ columns' = RegisterColumn(columns, name, built)
          /\ history_sizes' = RegisterHistorySize(history_sizes, name, built)
          /\ max_history_lags' = RegisterMaxHistoryLag(max_history_lags, name, built,
                                                       a.max_history_lag)
          /\ last' = [op |-> "line", name |-> name, default_value |-> a.default_value,
                      history |-> a.history, simulation |-> a.simulation,
                      simulate_from |-> a.simulate_from,
                      simulate_until |-> a.simulate_until,
                      max_history_lag |-> a.max_history_lag,
                      exc |-> built.exc, at |-> built.at,
                      series |-> built.series, history_size |-> built.history_size,
                      called |-> built.called, window |-> built.window,
                      overwrote |-> Overwrites(name, built, a.max_history_lag)]
    /\ report' = None
    /\ UNCHANGED <<df_index, accessor, bp_name, assumptions, sim, today>>

\* One more call on the table, under any of the names.
LineCall ==
    /\ \E name \in Names, a \in TableCalls : Line(name, a)
    /\ UNCHANGED pending

\* The single call whose arguments were drawn at the start.
LinePending ==
    /\ pending # None
    /\ Line(pending[1].name, pending[1])
    /\ pending' = None

Next == BPAccessorInit \/ LineCall

Spec == Init /\ [][Next]_vars

NextOneCall == BPAccessorInit \/ LinePending

SpecOneCall == InitOneCall /\ [][NextOneCall]_vars

\* ------------------------------------------------------ library simulators
\*
\* The simulators percent_of and actualise are called directly, as the tests
\* do, with the seven arguments line() would hand them: the index is df_index,
\* start_index and end_index are the keys at start_loc and end_loc.  Series
\* values are integers; percentages and results are exact fractions n/d with
\* d > 0 in lowest terms, so that equalities between results are decided
\* exactly (the rounding of float64 is not modelled).

\* Longest index a simulator is called over.
MaxSimLen == 3

\* Index keys of these calls: a negative key, the falsy key 0, positive keys.
SimKeys == -1..(MaxSimLen - 1)

OptionalSimKeys == {None} \cup {Some(k) : k \in SimKeys}

\* The non-empty indexes BPAccessor.__init__ accepts.
SimIndexes == {idx \in SeqsUpTo(SimKeys, MaxSimLen) :
                  Len(idx) > 0 /\ is_monotonic_increasing(idx) /\ is_unique(idx)}

\* Values of a series: zero and two other values.
SeriesValues == {0, 100, 200}

SeriesOver(idx) == [1..Len(idx) -> SeriesValues]

RECURSIVE Gcd(_, _)
Gcd(a, b) == IF b = 0 THEN a ELSE Gcd(b, a % b)

Abs(x) == IF x < 0 THEN -x ELSE x

\* The fraction n/d in lowest terms with a positive denominator.
Rat(n, d) == LET g == Gcd(Abs(n), Abs(d))
                 sign == IF d < 0 THEN -1 ELSE 1
             IN [n |-> sign * (n \div g), d |-> sign * (d \div g)]

RatOfInt(x) == Rat(x, 1)

RatAdd(x, y) == Rat(x.n * y.d + y.n * x.d, x.d * y.d)

RatMul(x, y) == Rat(x.n * y.n, x.d * y.d)

RECURSIVE RatPow(_, _)
\* x ** e for an integer e; x is not zero when e is negative.
RatPow(x, e) == IF e = 0 THEN RatOfInt(1)
                ELSE IF e < 0 THEN RatPow(Rat(x.d, x.n), -e)
                ELSE RatMul(x, RatPow(x, e - 1))

\* Percentages tried: 10 %, 100 % and -50 %.
Percents == {Rat(1, 10), Rat(1, 1), Rat(-1, 2)}

\* The value argument of actualise: omitted, the falsy 0, or 10.
OptionalValues == {None, Some(0), Some(10)}

\* The shift argument of percent_of, far enough to leave the source entirely.
Shifts == (-MaxSimLen)..MaxSimLen

\* A simulator's outcome: the list it returns, or the exception it raises.
Returned(result) == [exc |-> "None", at |-> "", result |-> result]

Raised(e, at) == [exc |-> e, at |-> at, result |-> <<>>]

\* ---- actualise(percent, value=None, reference=None)

\* Mutant: a reference equal to 0 passes for an omitted one.
ReferenceWithoutValue_truthy(value, reference) == value = None /\ Truthy(reference)

\* value is None and reference is not None
ReferenceWithoutValue(value, reference) == value = None /\ reference # None

\* Mutant: the series' value at start_loc itself.
PrecedingValue_at_start(s, start_loc) == RatOfInt(At(s, start_loc))

\* s.iloc[start_loc - 1]
PrecedingValue(s, start_loc) == RatOfInt(At(s, start_loc - 1))

\* _value: the value argument, or the series' value before the window.
ActualiseValue(s, value, reference, start_loc) ==
    IF value = None
    THEN IF ReferenceWithoutValue(value, reference) THEN Raised("ValueError", "reference")
         ELSE IF start_loc = 0 THEN Raised("ValueError", "start")
         ELSE Returned(PrecedingValue(s, start_loc))
    ELSE Returned(RatOfInt(value[1]))

\* _reference: the position the anchor value stands at.
ActualiseReference(idx, value, reference, start_loc) ==
    IF Truthy(reference)
    THEN IF Contains(idx, reference[1]) THEN Returned(get_loc(idx, reference[1]))
         ELSE Raised("KeyError", "get_loc")
    ELSE IF Truthy(value) THEN Returned(start_loc)
    ELSE IF start_loc = 0 THEN Raised("ValueError", "start")
    ELSE Returned(start_loc - 1)

\* [_value * (1 + percent) ** (i - _reference) for i in range(start_loc, end_loc + 1)]
Compound(v, percent, ref, start_loc, end_loc) ==
    [k \in 1..(end_loc - start_loc + 1) |->
        RatMul(v, RatPow(RatAdd(RatOfInt(1), percent), start_loc + k - 1 - ref))]

\* The simulator actualise returns, applied to its arguments.
Actualise(idx, s, percent, value, reference, start_loc, end_loc) ==
    LET v == ActualiseValue(s, value, reference, start_loc)
    IN IF v.exc # "None" THEN v
       ELSE LET ref == ActualiseReference(idx, value, reference, start_loc)
            IN IF ref.exc # "None" THEN ref
               ELSE Returned(Compound(v.result, percent, ref.result, start_loc, end_loc))

\* ---- percent_of(s2, percent, shift=0)

\* Mutant: the series moves the other way.
Shift_backwards(s, periods, fill_value) ==
    [i \in 1..Len(s) |-> IF i + periods \in 1..Len(s) THEN s[i + periods] ELSE fill_value]

\* s.shift(periods, fill_value=fill_value): position i takes the value of
\* position i - periods, fill_value where there is none.
Shift(s, periods, fill_value) ==
    [i \in 1..Len(s) |-> IF i - periods \in 1..Len(s) THEN s[i - periods] ELSE fill_value]

\* Mutant: values leaving at one end come back at the other.
ShiftedSource_wrap(s2, shift) ==
    [i \in 1..Len(s2) |-> s2[((i - 1 + shift) % Len(s2)) + 1]]

\* s2.shift(-shift, fill_value=0)
ShiftedSource(s2, shift) == Shift(s2, -shift, 0)

\* s.loc[start_index: end_index], both keys in the index of s.
LocSlice(idx, s, start_index, end_index) ==
    SubSeq(s, get_loc(idx, start_index) + 1, get_loc(idx, end_index) + 1)

\* The simulator percent_of returns, applied to its arguments.
PercentOf(idx, s2, percent, shift, start_index, end_index) ==
    LET window == LocSlice(idx, ShiftedSource(s2, shift), start_index, end_index)
    IN Returned([k \in 1..Len(window) |-> RatMul(RatOfInt(window[k]), percent)])

\* ---- actualise_and_cumulate(s2, percent)

\* s.shift(1, fill_value=0).loc[key]
ShiftedAt(idx, s, key) == At(Shift(s, 1, 0), get_loc(idx, key))

\* Mutant: the addend is added after the multiplication.
CumulateStep_add_last(cumulated, value, percent) ==
    RatAdd(RatMul(cumulated, RatAdd(RatOfInt(1), percent)), value)

\* cumulated = (cumulated + value) * (1 + percent)
CumulateStep(cumulated, value, percent) ==
    RatMul(RatAdd(cumulated, value), RatAdd(RatOfInt(1), percent))

RECURSIVE Cumulate(_, _, _, _)
\* The list built by the loop over the first k values of `addends`.
Cumulate(seed, addends, percent, k) ==
    IF k = 0 THEN <<>>
    ELSE LET before == Cumulate(seed, addends, percent, k - 1)
             cumulated == IF k = 1 THEN seed ELSE before[k - 1]
         IN Append(before, CumulateStep(cumulated, RatOfInt(addends[k]), percent))

\* The simulator actualise_and_cumulate returns, applied to its arguments.
ActualiseAndCumulate(idx, s1, s2, percent, start_index, end_index) ==
    LET seed == RatOfInt(ShiftedAt(idx, s1, start_index))
        addends == LocSlice(idx, Shift(s2, 1, 0), start_index, end_index)
    IN Returned(Cumulate(seed, addends, percent, Len(addends)))

\* ---- from_list(values, start=None)

\* Mutant: the list position of the window start is not taken into account.
ListSlice_from_first(values, offset, length) == SubSeq(values, 1, length)

\* values[offset: offset + length]
ListSlice(values, offset, length) == SubSeq(values, offset + 1, offset + length)

\* The simulator from_list returns, applied to its arguments.
FromList(idx, values, start, start_loc, end_loc) ==
    LET values_start == IF Truthy(start) THEN Ok(start[1]) ELSE IndexAt(idx, 0)
    IN IF values_start.exc # "None" THEN Raised(values_start.exc, "index")
       ELSE IF ~Contains(idx, values_start.val) THEN Raised("KeyError", "get_loc")
       ELSE LET values_start_loc == get_loc(idx, values_start.val)
                length == end_loc - start_loc + 1
            IN IF ~(values_start_loc <= start_loc) THEN Raised("ValueError", "start")
               ELSE IF ~(start_loc - values_start_loc + length <= Len(values))
                    THEN Raised("ValueError", "values")
               ELSE Returned(ListSlice(values, start_loc - values_start_loc, length))

\* ---- one_offs(one_offs, default_value=0)

\* Mutant: a falsy entry of the dictionary gives way to the default.
DictGet_or(d, key, default) == IF key \in DOMAIN d /\ d[key] # 0 THEN d[key] ELSE default

\* d.get(key, default)
DictGet(d, key, default) == IF key \in DOMAIN d THEN d[key] ELSE default

\* The simulator one_offs returns, applied to its arguments.
OneOffs(d, default_value, index_values) ==
    Returned([k \in 1..Len(index_values) |-> DictGet(d, index_values[k], default_value)])

\* ---- recurring(value, start=None, end=None, default_value=0)

\* The simulator recurring returns, applied to its arguments.
Recurring(idx, value, start, end, default_value, index_values) ==
    LET _start == IF Truthy(start) THEN Ok(start[1]) ELSE IndexAt(idx, 0)
        _end == IF Truthy(end) THEN Ok(end[1]) ELSE IndexLast(idx)
    IN IF _start.exc # "None" THEN Raised(_start.exc, "index")
       ELSE IF _end.exc # "None" THEN Raised(_end.exc, "index")
       ELSE Returned([k \in 1..Len(index_values) |->
                         IF _start.val <= index_values[k] /\ index_values[k] <= _end.val
                         THEN value ELSE default_value])

\* ---- direct calls

\* A simulator call still to be made.
SimCall(kind, s, s2, percent, value, reference, shift, start_loc, end_loc) ==
    [kind |-> kind, s |-> s, s2 |-> s2, percent |-> percent, value |-> value,
     reference |-> reference, shift |-> shift,
     start_loc |-> start_loc, end_loc |-> end_loc,
     values |-> <<>>, start |-> None, end |-> None, default_value |-> 0,
     one_offs |-> EmptyDict,
     done |-> FALSE, exc |-> "None", at |-> "", result |-> <<>>,
     repeated |-> FALSE, second |-> Returned(<<>>)]

Windows(idx) == {w \in (0..(Len(idx) - 1)) \X (0..(Len(idx) - 1)) : w[1] <= w[2]}

\* Target series: all zeros, or 10, 20, 30, ...
TargetSeries(idx) == {[i \in 1..Len(idx) |-> a * i] : a \in {0, 10}}

ActualiseCalls(idx) ==
    {SimCall("actualise", s, s, percent, value, reference, 0, w[1], w[2]) :
        s \in TargetSeries(idx), percent \in Percents, value \in OptionalValues,
        reference \in OptionalSimKeys, w \in Windows(idx)}

PercentOfCalls(idx) ==
    {SimCall("percent_of", s2, s2, percent, None, None, shift, w[1], w[2]) :
        s2 \in SeriesOver(idx), percent \in Percents, shift \in Shifts,
        w \in Windows(idx)}

ActualiseAndCumulateCalls(idx) ==
    {SimCall("actualise_and_cumulate", s1, s2, percent, None, None, 0, w[1], w[2]) :
        s1 \in TargetSeries(idx), s2 \in SeriesOver(idx), percent \in Percents,
        w \in Windows(idx)}

\* The list handed to from_list: the first k values of 0, 1, 2, ...
ValuesList(k) == [i \in 1..k |-> i - 1]

FromListCalls(idx) ==
    {[SimCall("from_list", s, s, Rat(0, 1), None, None, 0, w[1], w[2])
         EXCEPT !.values = ValuesList(k), !.start = start] :
        s \in TargetSeries(idx), k \in 0..(MaxSimLen + 1), start \in OptionalSimKeys,
        w \in Windows(idx)}

\* Dictionaries handed to one_offs: any set of keys, in the index or not,
\* the key k holding 10 * k (so 0 under the key 0).
OneOffDicts == {[k \in K |-> 10 * k] : K \in SUBSET SimKeys}

OneOffsCalls(idx) ==
    {[SimCall("one_offs", s, s, Rat(0, 1), None, None, 0, w[1], w[2])
         EXCEPT !.one_offs = d, !.default_value = default_value] :
        s \in TargetSeries(idx), d \in OneOffDicts, default_value \in DefaultValues,
        w \in Windows(idx)}

\* recurring is called with the value 7.
RecurringCalls(idx) ==
    {[SimCall("recurring", s, s, Rat(0, 1), Some(7), None, 0, w[1], w[2])
         EXCEPT !.start = start, !.end = end, !.default_value = default_value] :
        s \in TargetSeries(idx), start \in OptionalSimKeys, end \in OptionalSimKeys,
        default_value \in DefaultValues, w \in Windows(idx)}

SimCalls(idx) ==
    ActualiseCalls(idx) \cup PercentOfCalls(idx) \cup ActualiseAndCumulateCalls(idx)
    \cup FromListCalls(idx) \cup OneOffsCalls(idx) \cup RecurringCalls(idx)

\* A table whose accessor is bound, and one simulator call to make on it.
InitSim ==
    /\ df_index \in SimIndexes
    /\ accessor = "ok"
    /\ bp_name = ""
    /\ assumptions = <<>>
    /\ columns = EmptyDict
    /\ history_sizes = EmptyDict
    /\ max_history_lags = EmptyDict
    /\ last = NoCall
    /\ pending = None
    /\ sim \in {Some(c) : c \in SimCalls(df_index)}
    /\ today = 0
    /\ report = None

\* Mutant: the simulator works in place, clearing the target series and
\* using up the captured list.
Outcome_in_place(c, out) ==
    Some([c EXCEPT !.done = TRUE, !.exc = out.exc, !.at = out.at, !.result = out.result,
                   !.s = [i \in DOMAIN c.s |-> 0], !.values = <<>>])

\* The call's outcome recorded next to its arguments.
Outcome(c, out) == Some([c EXCEPT !.done = TRUE, !.exc = out.exc, !.at = out.at,
                                  !.result = out.result])

ActualiseCall ==
    /\ sim # None
    /\ sim[1].kind = "actualise"
    /\ ~sim[1].done
    /\ LET c == sim[1]
       IN sim' = Outcome(c, Actualise(df_index, c.s, c.percent, c.value, c.reference,
                                      c.start_loc, c.end_loc))
    /\ UNCHANGED <<df_index, accessor, bp_name, assumptions, columns, history_sizes,
                   max_history_lags, last, pending, today, report>>

PercentOfCall ==
    /\ sim # None
    /\ sim[1].kind = "percent_of"
    /\ ~sim[1].done
    /\ LET c == sim[1]
       IN sim' = Outcome(c, PercentOf(df_index, c.s2, c.percent, c.shift,
                                      At(df_index, c.start_loc), At(df_index, c.end_loc)))
    /\ UNCHANGED <<df_index, accessor, bp_name, assumptions, columns, history_sizes,
                   max_history_lags, last, pending, today, report>>

ActualiseAndCumulateCall ==
    /\ sim # None
    /\ sim[1].kind = "actualise_and_cumulate"
    /\ ~sim[1].done
    /\ LET c == sim[1]
       IN sim' = Outcome(c, ActualiseAndCumulate(df_index, c.s, c.s2, c.percent,
                                                At(df_index, c.start_loc),
                                                At(df_index, c.end_loc)))
    /\ UNCHANGED <<df_index, accessor, bp_name, assumptions, columns, history_sizes,
                   max_history_lags, last, pending, today, report>>

FromListCall ==
    /\ sim # None
    /\ sim[1].kind = "from_list"
    /\ ~sim[1].done
    /\ LET c == sim[1]
       IN sim' = Outcome(c, FromList(df_index, c.values, c.start, c.start_loc, c.end_loc))
    /\ UNCHANGED <<df_index, accessor, bp_name, assumptions, columns, history_sizes,
                   max_history_lags, last, pending, today, report>>

OneOffsCall ==
    /\ sim # None
    /\ sim[1].kind = "one_offs"
    /\ ~sim[1].done
    /\ LET c == sim[1]
       IN sim' = Outcome(c, OneOffs(c.one_offs, c.default_value,
                                    IndexSlice(df_index, c.start_loc, c.end_loc)))
    /\ UNCHANGED <<df_index, accessor, bp_name, assumptions, columns, history_sizes,
                   max_history_lags, last, pending, today, report>>

RecurringCall ==
    /\ sim # None
    /\ sim[1].kind = "recurring"
    /\ ~sim[1].done
    /\ LET c == sim[1]
       IN sim' = Outcome(c, Recurring(df_index, c.value[1], c.start, c.end, c.default_value,
                                      IndexSlice(df_index, c.start_loc, c.end_loc)))
    /\ UNCHANGED <<df_index, accessor, bp_name, assumptions, columns, history_sizes,
                   max_history_lags, last, pending, today, report>>

\* The simulator of call c, applied to c's arguments.
Simulate(idx, c) ==
    LET start_index == At(idx, c.start_loc)
        end_index == At(idx, c.end_loc)
        index_values == IndexSlice(idx, c.start_loc, c.end_loc)
    IN CASE c.kind = "actualise" ->
              Actualise(idx, c.s, c.percent, c.value, c.reference, c.start_loc, c.end_loc)
         [] c.kind = "percent_of" ->
              PercentOf(idx, c.s2, c.percent, c.shift, start_index, end_index)
         [] c.kind = "actualise_and_cumulate" ->
              ActualiseAndCumulate(idx, c.s, c.s2, c.percent, start_index, end_index)
         [] c.kind = "from_list" ->
              FromList(idx, c.values, c.start, c.start_loc, c.end_loc)
         [] c.kind = "one_offs" ->
              OneOffs(c.one_offs, c.default_value, index_values)
         [] c.kind = "recurring" ->
              Recurring(idx, c.value[1], c.start, c.end, c.default_value, index_values)

\* The same simulator invoked a second time with the same window arguments.
SimAgain ==
    /\ sim # None
    /\ sim[1].done
    /\ ~sim[1].repeated
    /\ sim' = Some([sim[1] EXCEPT !.repeated = TRUE, !.second = Simulate(df_index, sim[1])])
    /\ UNCHANGED <<df_index, accessor, bp_name, assumptions, columns, history_sizes,
                   max_history_lags, last, pending, today, report>>

NextSim ==
    \/ SimAgain
    \/ ActualiseCall
    \/ PercentOfCall
    \/ ActualiseAndCumulateCall
    \/ FromListCall
    \/ OneOffsCall
    \/ RecurringCall

SpecSim == InitSim /\ [][NextSim]_vars

\* ---- from_list over the table of the tests: the keys 2020 to 2025

\* First key of the tests' index.
ExampleFirstKey == 2020

\* Number of keys of the tests' index.
ExampleLen == 6

ExampleIndex == [i \in 1..ExampleLen |-> ExampleFirstKey + i - 1]

ExampleSeries == [i \in 1..ExampleLen |-> 100 * i]

ExampleCalls ==
    {[SimCall("from_list", ExampleSeries, ExampleSeries, Rat(0, 1), None, None, 0, w[1], w[2])
         EXCEPT !.values = ValuesList(k), !.start = start] :
        k \in 0..ExampleLen,
        start \in {None} \cup {Some(ExampleIndex[i]) : i \in 1..ExampleLen},
        w \in Windows(ExampleIndex)}

InitExample ==
    /\ df_index = ExampleIndex
    /\ accessor = "ok"
    /\ bp_name = ""
    /\ assumptions = <<>>
    /\ columns = EmptyDict
    /\ history_sizes = EmptyDict
    /\ max_history_lags = EmptyDict
    /\ last = NoCall
    /\ pending = None
    /\ sim \in {Some(c) : c \in ExampleCalls}
    /\ today = 0
    /\ report = None

NextExample == FromListCall

SpecExample == InitExample /\ [][NextExample]_vars

\* ------------------------------------------------- assumptions and BPStatus
\*
\* Tables of this part have a datetime index, which index_to_datetime returns
\* as it is; dates and datetimes are day numbers and timedeltas numbers of days.

\* Most assumptions a table is given.
MaxAssumptions == 2

\* Dates at which something happens: either side of a lag of 30 days and of
\* a lag or update period of 365 days, counted from day 0 or day 1.
Days == {31, 32, 365, 366}

\* The assumptions' history lists: 3 values (never reported) or 4.
AssumptionHistories == {HistoryList(3), HistoryList(4)}

\* Mutant: an assumption is due on the day its period ends.
UpdateRequired_on_the_day(now, last_update, update_every_x_year) ==
    now - last_update >= update_every_x_year * 365

\* (date.today() - self.last_update).days > self.update_every_x_year * 365
UpdateRequired(now, last_update, update_every_x_year) ==
    now - last_update > update_every_x_year * 365

\* ExternalAssumption(name, last_update, update_every_x_year, ...), created on
\* day `now`.
ExternalAssumption(name, last_update, update_every_x_year, now) ==
    [class |-> "ExternalAssumption", name |-> name, last_update |-> last_update,
     update_every_x_year |-> update_every_x_year,
     update_required |-> UpdateRequired(now, last_update, update_every_x_year)]

\* HistoryBasedAssumption(name, value, history, start, last_update,
\* update_every_x_year), created on day `now`.
HistoryBasedAssumption(name, value, history, start, last_update, update_every_x_year, now) ==
    [class |-> "HistoryBasedAssumption", name |-> name, value |-> value,
     history |-> history, start |-> start, last_update |-> last_update,
     update_every_x_year |-> update_every_x_year,
     update_required |-> Len(history) > 3
                         /\ UpdateRequired(now, last_update, update_every_x_year)]

\* Whether an object has the attribute: reading one it lacks raises
\* AttributeError.
HasAttr(obj, attr) == attr \in DOMAIN obj

RECURSIVE Sum(_, _)
Sum(xs, k) == IF k = 0 THEN 0 ELSE Sum(xs, k - 1) + xs[k]

\* The entry of the status list for a history-based assumption that needs an
\* update: the message and the chart's three datasets.
HistoryItem(idx, assumption) ==
    LET n == Len(assumption.history)
    IN IF ~Contains(idx, assumption.start) THEN Raised("KeyError", "get_loc")
       ELSE IF ~HasAttr(assumption, "ndigits") THEN Raised("AttributeError", "ndigits")
       ELSE IF n = 0 THEN Raised("ZeroDivisionError", "mean")
       ELSE IF ~HasAttr(assumption, "y_scale") THEN Raised("AttributeError", "y_scale")
       ELSE Returned([message |-> "H-assumption needs update", name |-> assumption.name,
                      datasets |-> <<[i \in 1..n |-> RatOfInt(assumption.value)],
                                     [i \in 1..n |-> RatOfInt(assumption.history[i])],
                                     [i \in 1..n |-> Rat(Sum(assumption.history, n), n)]>>])

RECURSIVE AssumptionItems(_, _, _)
\* The status list after the loop over the first k assumptions.
AssumptionItems(idx, as, k) ==
    IF k = 0 THEN Returned(<<>>)
    ELSE LET before == AssumptionItems(idx, as, k - 1)
             assumption == as[k]
         IN IF before.exc # "None" THEN before
            ELSE IF assumption.class = "ExternalAssumption" /\ assumption.update_required
                 THEN Returned(Append(before.result,
                                      [message |-> "Assumption needs update",
                                       name |-> assumption.name]))
            ELSE IF assumption.class = "HistoryBasedAssumption" /\ assumption.update_required
                 THEN LET item == HistoryItem(idx, assumption)
                      IN IF item.exc # "None" THEN item
                         ELSE Returned(Append(before.result, item.result))
            ELSE before

\* index_to_datetime(index), for a datetime index
index_to_datetime(index) == index

\* Whether the loop over the columns reports the column `name`.
MissingHistory(idx, name, now) ==
    /\ history_size(name) # 0
    /\ index_to_datetime(At(idx, history_size(name) - 1)) < now - max_history_lag(name)

\* BPStatus(bp): the status list (assumptions, then lines) and the summary.
BPStatus(idx, as, cols, now) ==
    LET listed == AssumptionItems(idx, as, Len(as))
        lines == {name \in DOMAIN cols : MissingHistory(idx, name, now)}
    IN IF listed.exc # "None"
       THEN [exc |-> listed.exc, at |-> listed.at, assumptions |-> <<>>, lines |-> {},
             summary |-> ""]
       ELSE [exc |-> "None", at |-> "", assumptions |-> listed.result, lines |-> lines,
             summary |-> IF listed.result # <<>> \/ lines # {}
                         THEN "Out of date" ELSE "Up to date"]

\* A table whose accessor is bound, on the first of the days.
InitStatus ==
    /\ df_index \in {idx \in IndexCandidates :
                        is_monotonic_increasing(idx) /\ is_unique(idx)}
    /\ accessor = "ok"
    /\ bp_name = ""
    /\ assumptions = <<>>
    /\ columns = EmptyDict
    /\ history_sizes = EmptyDict
    /\ max_history_lags = EmptyDict
    /\ last = NoCall
    /\ pending = None
    /\ sim = None
    /\ today = 31
    /\ report = None

\* df.bp.line("a", history=..., max_history_lag=...)
StatusLine ==
    /\ \E h \in {None} \cup {Some(HistoryList(k)) : k \in 1..MaxLen}, lag \in Lags :
          Line("a", Args("a", DefaultDefaultValue, h, None, None, None, lag))
    /\ UNCHANGED pending

\* df["c"] = [...]: a column that line() did not create.
AssignColumn ==
    /\ "c" \notin DOMAIN columns
    /\ columns' = SetItem(columns, "c", [i \in 1..Len(df_index) |-> 20 + i])
    /\ report' = None
    /\ UNCHANGED <<df_index, accessor, bp_name, assumptions, history_sizes,
                   max_history_lags, last, pending, sim, today>>

\* df.bp.assumptions.append(ExternalAssumption(...))
AppendExternalAssumption ==
    /\ Len(assumptions) < MaxAssumptions
    /\ assumptions' = Append(assumptions, ExternalAssumption("x", 0, 1, today))
    /\ report' = None
    /\ UNCHANGED <<df_index, accessor, bp_name, columns, history_sizes,
                   max_history_lags, last, pending, sim, today>>

\* df.bp.assumptions.append(HistoryBasedAssumption(...)), its history starting
\* at the key 0, which the index may hold or not.
AppendHistoryBasedAssumption ==
    /\ Len(assumptions) < MaxAssumptions
    /\ \E history \in AssumptionHistories :
          assumptions' = Append(assumptions,
                                HistoryBasedAssumption("h", 5, history, 0, 0, 1, today))
    /\ report' = None
    /\ UNCHANGED <<df_index, accessor, bp_name, columns, history_sizes,
                   max_history_lags, last, pending, sim, today>>

\* Time passes.
Tick ==
    /\ \E d \in Days : d > today /\ today' = d
    /\ report' = None
    /\ UNCHANGED <<df_index, accessor, bp_name, assumptions, columns, history_sizes,
                   max_history_lags, last, pending, sim>>

\* BPStatus(df)
BPStatusCall ==
    /\ report = None
    /\ report' = Some(BPStatus(df_index, assumptions, columns, today))
    /\ UNCHANGED <<df_index, accessor, bp_name, assumptions, columns, history_sizes,
                   max_history_lags, last, pending, sim, today>>

NextStatus ==
    \/ StatusLine
    \/ AssignColumn
    \/ AppendExternalAssumption
    \/ AppendHistoryBasedAssumption
    \/ Tick
    \/ BPStatusCall

SpecStatus == InitStatus /\ [][NextStatus]_vars

\* ------------------------------------------------------------------ claims

\* The history list of the last call ([] when history was None), its length,
\* and the list the simulator of the last call returns.
LastHistory == IF last.history = None THEN <<>> ELSE last.history[1]

LastHistoryLen == Len(LastHistory)

LastResult == last.simulation[1].result

LineDone == last.op = "line"

LineReturned == last.op = "line" /\ last.exc = "None"

InWindow(i) == last.called /\ i >= last.window.start_loc /\ i <= last.window.end_loc

\* C1: a line() call that raises (history too long, simulate_from or
\* simulate_until not in the index, start after end, wrong result length, the
\* simulator raising) leaves the columns and both metadata maps as they were.
C1_NoPartialCommit ==
    [][(last'.op = "line" /\ last'.exc # "None") =>
          /\ columns' = columns
          /\ history_sizes' = history_sizes
          /\ max_history_lags' = max_history_lags]_vars

\* C1 witness: the simulator raised in a call naming an already registered line.
C1_Witness ==
    /\ LineDone
    /\ last.exc = "SimulatorError"
    /\ last.name \in DOMAIN columns
    /\ Cardinality(DOMAIN columns) = 2

\* C2: whenever the simulator is invoked with simulate_from omitted, the window
\* starts at Index[len(history)] (Index[0] for no or empty history); with
\* simulate_until omitted it ends at the last index key.
C2_DefaultWindow ==
    (LineDone /\ last.called) =>
        /\ last.simulate_from = None =>
              /\ LastHistoryLen < Len(df_index)
              /\ last.window.start_index = df_index[LastHistoryLen + 1]
              /\ last.window.start_loc = LastHistoryLen
        /\ last.simulate_until = None =>
              /\ last.window.end_index = df_index[Len(df_index)]
              /\ last.window.end_loc = Len(df_index) - 1

\* C2 witness: a simulation right after a non-empty history, to the last key.
C2_Witness ==
    /\ LineReturned
    /\ last.called
    /\ last.simulate_from = None
    /\ last.simulate_until = None
    /\ LastHistoryLen = 1
    /\ Len(df_index) = 2

\* C3: with a simulator, simulate_from omitted and a history as long as the
\* index, the call does not fail computing the start key.
C3_FullHistoryStartsAtFirstKey ==
    (/\ LineDone
     /\ last.simulation # None
     /\ last.simulate_from = None
     /\ Len(df_index) > 0
     /\ LastHistoryLen = Len(df_index)) =>
        ~(last.exc # "None" /\ last.at = "start_index")

\* C4: a history no longer than the index fills the first len(history)
\* positions verbatim (outside any simulation window), the other positions keep
\* default_value when there is no simulator, and history_size(name) is
\* len(history), simulated over or not; a longer history raises ValueError.
C4_History ==
    LineDone =>
        /\ LastHistoryLen > Len(df_index) => (last.exc = "ValueError" /\ last.at = "history")
        /\ (LastHistoryLen <= Len(df_index) /\ last.simulation = None) => last.exc = "None"
        /\ (LastHistoryLen <= Len(df_index) /\ last.exc = "None") =>
              /\ Len(last.series) = Len(df_index)
              /\ \A i \in 0..(LastHistoryLen - 1) :
                    ~InWindow(i) => At(last.series, i) = At(LastHistory, i)
              /\ last.simulation = None =>
                    \A i \in LastHistoryLen..(Len(df_index) - 1) :
                        At(last.series, i) = last.default_value
              /\ last.name # "" => history_size(last.name) = LastHistoryLen

\* C4 witness: a registered line whose simulation window covers part of its history.
C4_Witness ==
    /\ LineReturned
    /\ last.name = "a"
    /\ LastHistoryLen = 2
    /\ last.called
    /\ last.window.start_loc = 1
    /\ history_size("a") = 2

\* C5: the simulator's values land on positions start_loc..end_loc in order;
\* every other position keeps its history value or default_value.
C5_SimulationAssigned ==
    (LineReturned /\ last.called) =>
        \A i \in 0..(Len(df_index) - 1) :
            At(last.series, i) =
                IF i >= last.window.start_loc /\ i <= last.window.end_loc
                THEN At(LastResult, i - last.window.start_loc)
                ELSE IF i < LastHistoryLen THEN At(LastHistory, i)
                ELSE last.default_value

\* C5 witness: a one-position window that overwrites the first history value
\* and leaves a default value behind it.
C5_Witness ==
    /\ LineReturned
    /\ last.called
    /\ Len(df_index) = 2
    /\ LastHistoryLen = 1
    /\ last.window.start_loc = 0
    /\ last.window.end_loc = 0
    /\ last.default_value = 9
    /\ last.series = <<51, 9>>

\* C6: a call with a non-empty name changes no entry but that name's; a call
\* with the empty name changes nothing in the columns and the metadata maps.
C6_Frame ==
    [][last'.op = "line" =>
          IF last'.name = ""
          THEN columns' = columns /\ history_sizes' = history_sizes
               /\ max_history_lags' = max_history_lags
          ELSE /\ DOMAIN columns' \subseteq (DOMAIN columns) \cup {last'.name}
               /\ DOMAIN history_sizes' \subseteq (DOMAIN history_sizes) \cup {last'.name}
               /\ DOMAIN max_history_lags' \subseteq (DOMAIN max_history_lags) \cup {last'.name}
               /\ \A n \in (DOMAIN columns) \ {last'.name} :
                     /\ n \in DOMAIN columns' /\ columns'[n] = columns[n]
                     /\ n \in DOMAIN history_sizes' /\ history_sizes'[n] = history_sizes[n]
                     /\ n \in DOMAIN max_history_lags'
                     /\ max_history_lags'[n] = max_history_lags[n]]_vars

\* C6 witness: line "a" is replaced while a different line "b" is registered.
C6_Witness ==
    /\ LineReturned
    /\ last.name = "a"
    /\ last.overwrote
    /\ "b" \in DOMAIN columns
    /\ columns["b"] # columns["a"]
    /\ history_sizes["b"] # history_sizes["a"]

\* C7: after a successful call under a non-empty name the registered line is
\* exactly the series of that call and history_size and max_history_lag are
\* those of that call, whatever was registered under the name before.
C7_Replace ==
    (LineReturned /\ last.name # "") =>
        /\ last.name \in DOMAIN columns
        /\ columns[last.name] = last.series
        /\ \A i \in 0..(Len(df_index) - 1) :
              At(columns[last.name], i) =
                  IF InWindow(i) THEN At(LastResult, i - last.window.start_loc)
                  ELSE IF i < LastHistoryLen THEN At(LastHistory, i)
                  ELSE last.default_value
        /\ history_size(last.name) = LastHistoryLen
        /\ max_history_lag(last.name) = last.max_history_lag

\* C7 witness: a second call without history and with the default lag replaces
\* a line that had other values, another history size and another lag.
C7_Witness ==
    /\ LineReturned
    /\ last.name = "a"
    /\ last.overwrote
    /\ last.history = None
    /\ last.max_history_lag = DefaultMaxHistoryLag
    /\ history_size("a") = 0

\* C8: the accessor is built exactly over the strictly increasing indexes, any
\* other index raising ValueError; once built its name is "" and its
\* assumptions list empty, and no metadata exists before the first line().
C8_Constructor ==
    accessor # "unbound" =>
        IF \A i, j \in 1..Len(df_index) : i < j => df_index[i] < df_index[j]
        THEN /\ accessor = "ok"
             /\ bp_name = ""
             /\ assumptions = <<>>
             /\ last.op = "none" => (history_sizes = EmptyDict /\ max_history_lags = EmptyDict)
        ELSE accessor = "ValueError"

\* C8 witness: construction over an index with a duplicate key failed.
C8_Witness ==
    /\ accessor = "ValueError"
    /\ Len(df_index) = 2
    /\ df_index[1] = df_index[2]

\* C9: a simulator result whose length is not end_loc - start_loc + 1 makes
\* line() raise ValueError, and nothing is registered under the name.
C9_LengthMismatch ==
    (/\ LineDone
     /\ last.called
     /\ ~last.simulation[1].raises
     /\ Len(LastResult) # last.window.end_loc - last.window.start_loc + 1) =>
        /\ last.exc = "ValueError"
        /\ last.at = "length"
        /\ last.name \notin DOMAIN columns
        /\ last.name \notin DOMAIN history_sizes

\* C9 witness: the simulator returned one value too many for a named line.
C9_Witness ==
    /\ LineDone
    /\ last.name = "a"
    /\ last.called
    /\ last.exc = "ValueError"
    /\ Len(LastResult) = last.window.end_loc - last.window.start_loc + 2

\* C10: with a simulator, a simulate_from or simulate_until that is not a key
\* of the index makes line() raise KeyError before the simulator is invoked
\* (stated for a history shorter than the index, where Index[len(history)]
\* exists).
C10_KeyNotFound ==
    (/\ LineDone
     /\ last.simulation # None
     /\ LastHistoryLen < Len(df_index)
     /\ \/ last.simulate_from # None /\ ~(\E i \in 1..Len(df_index) : df_index[i] = last.simulate_from[1])
        \/ last.simulate_until # None /\ ~(\E i \in 1..Len(df_index) : df_index[i] = last.simulate_until[1])) =>
        /\ last.exc = "KeyError"
        /\ ~last.called

\* C11: a resolved start key greater than the resolved end key makes line()
\* raise ValueError before the simulator is invoked; with equal keys the
\* simulator is invoked on a one-key window.
C11_InvalidRange ==
    (LineDone /\ (last.exc = "None" \/ last.at \in {"range", "simulation", "length"})
              /\ last.simulation # None) =>
        /\ last.window.start_index > last.window.end_index
              <=> (last.exc = "ValueError" /\ last.at = "range")
        /\ last.at = "range" => ~last.called
        /\ last.window.start_index <= last.window.end_index => last.called
        /\ last.window.start_index = last.window.end_index =>
              /\ last.window.index_values = <<last.window.start_index>>
              /\ last.window.start_loc = last.window.end_loc
        /\ (/\ Truthy(last.simulate_from) /\ Truthy(last.simulate_until)
            /\ last.simulate_from[1] > last.simulate_until[1]) => last.at = "range"

\* C11 witness: simulate_from = 1 and simulate_until = -1, both index keys.
C11_Witness ==
    /\ LineDone
    /\ last.at = "range"
    /\ last.simulate_from = Some(1)
    /\ last.simulate_until = Some(-1)
    /\ df_index = <<-1, 1>>

\* C12: the simulator is always invoked with index_values the run of index
\* keys from position start_loc to end_loc, whose first key is start_index and
\* last key end_index.
C12_SimulatorArguments ==
    (LineDone /\ last.called) =>
        LET w == last.window
        IN /\ w.start_loc >= 0 /\ w.end_loc < Len(df_index) /\ w.start_loc <= w.end_loc
           /\ Len(w.index_values) = w.end_loc - w.start_loc + 1
           /\ At(w.index_values, 0) = w.start_index
           /\ w.index_values[Len(w.index_values)] = w.end_index
           /\ At(df_index, w.start_loc) = w.start_index
           /\ At(df_index, w.end_loc) = w.end_index
           /\ \A k \in 0..(w.end_loc - w.start_loc) :
                 At(w.index_values, k) = At(df_index, w.start_loc + k)

\* C12 witness: the simulator was handed a two-key window.
C12_Witness ==
    /\ LineDone
    /\ last.called
    /\ last.window.index_values = <<0, 1>>
    /\ last.window.start_loc = 0

\* C13: a call that returns under a non-empty name sets that name's
\* history_size and max_history_lag to its own len(history) and lag; any other
\* call leaves them as they are; a name without a column reads 0 and 365 days.
C13_Metadata ==
    /\ [][\A n \in Names \ {""} :
            LET hs == IF n \in DOMAIN history_sizes THEN history_sizes[n] ELSE 0
                hs2 == IF n \in DOMAIN history_sizes' THEN history_sizes'[n] ELSE 0
                lag == IF n \in DOMAIN max_history_lags THEN max_history_lags[n] ELSE DefaultMaxHistoryLag
                lag2 == IF n \in DOMAIN max_history_lags' THEN max_history_lags'[n] ELSE DefaultMaxHistoryLag
            IN IF last'.op = "line" /\ last'.exc = "None" /\ last'.name = n
               THEN /\ hs2 = (IF last'.history = None THEN 0 ELSE Len(last'.history[1]))
                    /\ lag2 = last'.max_history_lag
               ELSE hs2 = hs /\ lag2 = lag]_vars
    /\ [](\A n \in Names :
            /\ n \in DOMAIN history_sizes => history_size(n) = history_sizes[n]
            /\ n \in DOMAIN max_history_lags => max_history_lag(n) = max_history_lags[n]
            /\ n \notin DOMAIN columns => (history_size(n) = 0 /\ max_history_lag(n) = DefaultMaxHistoryLag))

\* C13 witness: "a" keeps the history size and lag of its last successful call
\* through a failed call under the same name, "b" never registered.
C13_Witness ==
    /\ LineDone
    /\ last.name = "a"
    /\ last.exc # "None"
    /\ history_size("a") = 1
    /\ max_history_lag("a") = 30
    /\ "b" \notin DOMAIN columns
    /\ max_history_lag("b") = DefaultMaxHistoryLag

\* C14: without history and without simulator line() returns a series over the
\* index whose every value is default_value.
C14_DefaultSeries ==
    (LineDone /\ last.history = None /\ last.simulation = None) =>
        /\ last.exc = "None"
        /\ DOMAIN last.series = DOMAIN df_index
        /\ \A i \in DOMAIN last.series : last.series[i] = last.default_value

\* C14 witness: two positions, both 9.
C14_Witness ==
    /\ LineReturned
    /\ last.history = None
    /\ last.simulation = None
    /\ last.series = <<9, 9>>

\* ---- direct simulator calls

SimDone(kind) == sim # None /\ sim[1].kind = kind /\ sim[1].done

SimReturned(kind) == SimDone(kind) /\ sim[1].exc = "None"

\* 1 + percent
Growth(percent) == RatAdd(RatOfInt(1), percent)

\* Positions of the window, counted from 1 in the result.
ResultPositions == 1..(sim[1].end_loc - sim[1].start_loc + 1)

\* C15: actualise with a value and no reference does not fail and returns
\* value * (1 + percent)^k at the k-th window position, k from 0, for every
\* value (0 included) and every start position (0 included).
C15_ValueOnly ==
    (SimDone("actualise") /\ sim[1].value # None /\ sim[1].reference = None) =>
        /\ sim[1].exc = "None"
        /\ DOMAIN sim[1].result = ResultPositions
        /\ \A k \in ResultPositions :
              sim[1].result[k] = RatMul(RatOfInt(sim[1].value[1]),
                                        RatPow(Growth(sim[1].percent), k - 1))

\* C16: actualise with a value and a reference key of the index returns
\* value * (1 + percent)^(i - reference_pos) at every window position i, for
\* every reference key (0 and negative keys included); stated for the values
\* other than 0, which C15 is about.
C16_ValueAndReference ==
    (/\ SimDone("actualise")
     /\ Truthy(sim[1].value)
     /\ sim[1].reference # None
     /\ Contains(df_index, sim[1].reference[1])) =>
        /\ sim[1].exc = "None"
        /\ DOMAIN sim[1].result = ResultPositions
        /\ \A k \in ResultPositions :
              sim[1].result[k] =
                  RatMul(RatOfInt(sim[1].value[1]),
                         RatPow(Growth(sim[1].percent),
                                sim[1].start_loc + k - 1 - get_loc(df_index, sim[1].reference[1])))

\* C17: actualise with neither value nor reference compounds the series' own
\* value at start_loc - 1: position i gets s[start_loc - 1] * (1 + percent)^(i -
\* start_loc + 1); it raises ValueError when start_loc is 0.
C17_PrecedingValue ==
    (SimDone("actualise") /\ sim[1].value = None /\ sim[1].reference = None) =>
        IF sim[1].start_loc = 0
        THEN sim[1].exc = "ValueError" /\ sim[1].result = <<>>
        ELSE /\ sim[1].exc = "None"
             /\ DOMAIN sim[1].result = ResultPositions
             /\ \A k \in ResultPositions :
                   sim[1].result[k] = RatMul(RatOfInt(At(sim[1].s, sim[1].start_loc - 1)),
                                             RatPow(Growth(sim[1].percent), k))

\* C17 witness: 10 before the window, 100 % over two positions: 20 and 40.
C17_Witness ==
    /\ SimReturned("actualise")
    /\ sim[1].value = None
    /\ sim[1].reference = None
    /\ sim[1].start_loc = 1
    /\ sim[1].s[1] = 10
    /\ sim[1].percent = Rat(1, 1)
    /\ sim[1].result = <<RatOfInt(20), RatOfInt(40)>>

\* C18: actualise with a reference and no value raises ValueError and returns
\* nothing, whatever the window and the reference key.
C18_ReferenceWithoutValue ==
    (SimDone("actualise") /\ sim[1].value = None /\ sim[1].reference # None) =>
        /\ sim[1].exc = "ValueError"
        /\ sim[1].at = "reference"
        /\ sim[1].result = <<>>

\* C18 witness: the reference is the key 0 and the window has a position
\* before it.
C18_Witness ==
    /\ SimDone("actualise")
    /\ sim[1].value = None
    /\ sim[1].reference = Some(0)
    /\ sim[1].start_loc = 1
    /\ sim[1].exc = "ValueError"

\* C19: percent_of returns one element per window position p, in order:
\* source[p + shift] * percent where p + shift is a position of the source, 0
\* where it is not.
C19_PercentOf ==
    SimDone("percent_of") =>
        /\ sim[1].exc = "None"
        /\ Len(sim[1].result) = sim[1].end_loc - sim[1].start_loc + 1
        /\ \A k \in ResultPositions :
              LET q == sim[1].start_loc + k - 1 + sim[1].shift
              IN sim[1].result[k] =
                    IF q >= 0 /\ q < Len(sim[1].s2)
                    THEN RatMul(RatOfInt(At(sim[1].s2, q)), sim[1].percent)
                    ELSE RatOfInt(0)

\* C19 witness: 10 % of the source [100, 200, 100] shifted by 1 over the whole
\* index is [20, 10, 0].
C19_Witness ==
    /\ SimReturned("percent_of")
    /\ sim[1].s2 = <<100, 200, 100>>
    /\ sim[1].percent = Rat(1, 10)
    /\ sim[1].shift = 1
    /\ sim[1].start_loc = 0
    /\ sim[1].result = <<RatOfInt(20), RatOfInt(10), RatOfInt(0)>>

\* Every window position p has p + shift outside the source's positions.
EntirelyOutside ==
    \A p \in sim[1].start_loc..sim[1].end_loc :
        ~(p + sim[1].shift >= 0 /\ p + sim[1].shift < Len(sim[1].s2))

\* C20 as stated: percent_of raises when the shifted window lies entirely
\* outside the source.
C20_FailsOutsideSource ==
    (SimDone("percent_of") /\ EntirelyOutside) => sim[1].exc # "None"

\* C20 amended: when the shifted window lies entirely outside the source,
\* percent_of does not fail and returns one 0 per window position.
C20_ZerosOutsideSource ==
    (SimDone("percent_of") /\ EntirelyOutside) =>
        /\ sim[1].exc = "None"
        /\ Len(sim[1].result) = sim[1].end_loc - sim[1].start_loc + 1
        /\ \A k \in ResultPositions : sim[1].result[k] = RatOfInt(0)

\* C20 witness: a source without zeros shifted by its whole length, over
\* two positions.
C20_Witness ==
    /\ SimReturned("percent_of")
    /\ EntirelyOutside
    /\ sim[1].s2 = <<100, 200, 100>>
    /\ sim[1].shift = 3
    /\ sim[1].start_loc = 0
    /\ sim[1].end_loc = 1
    /\ sim[1].result = <<RatOfInt(0), RatOfInt(0)>>

\* What precedes position p of a series: its value at p - 1, 0 before the
\* first position.
Before(series, p) == IF p = 0 THEN 0 ELSE At(series, p - 1)

\* C21: actualise_and_cumulate accumulates in window order from the target's
\* value before the window (0 at position 0): each output is the previous
\* output (the seed for the first) plus the addend's value one position
\* earlier (0 before its first position), times (1 + percent).
C21_Accumulator ==
    SimDone("actualise_and_cumulate") =>
        /\ sim[1].exc = "None"
        /\ DOMAIN sim[1].result = ResultPositions
        /\ \A k \in ResultPositions :
              LET prev == IF k = 1 THEN RatOfInt(Before(sim[1].s, sim[1].start_loc))
                          ELSE sim[1].result[k - 1]
                  addend == RatOfInt(Before(sim[1].s2, sim[1].start_loc + k - 1))
              IN sim[1].result[k] = RatMul(RatAdd(prev, addend), Growth(sim[1].percent))

\* C21 witness: seed 10, addends 100 then 200, at 100 %: 220 then 840.
C21_Witness ==
    /\ SimReturned("actualise_and_cumulate")
    /\ sim[1].s = <<10, 20, 30>>
    /\ sim[1].s2 = <<100, 200, 0>>
    /\ sim[1].percent = Rat(1, 1)
    /\ sim[1].start_loc = 1
    /\ sim[1].result = <<RatOfInt(220), RatOfInt(840)>>

\* Position of the key from_list's values start at: `start`, the first key
\* of the index when start is omitted.
AnchorLoc == IF sim[1].start = None THEN 0 ELSE get_loc(df_index, sim[1].start[1])

\* C22: from_list with a start key of the index (0 and negative keys included)
\* or none returns values[start_loc - a .. end_loc - a], a the position of
\* start; it raises ValueError when start_loc < a or when end_loc - a + 1 >
\* len(values).
C22_FromList ==
    (/\ SimDone("from_list")
     /\ sim[1].start # None => Contains(df_index, sim[1].start[1])) =>
        IF sim[1].start_loc < AnchorLoc \/ sim[1].end_loc - AnchorLoc + 1 > Len(sim[1].values)
        THEN sim[1].exc = "ValueError" /\ sim[1].result = <<>>
        ELSE /\ sim[1].exc = "None"
             /\ DOMAIN sim[1].result = ResultPositions
             /\ \A k \in ResultPositions :
                   sim[1].result[k] = At(sim[1].values, sim[1].start_loc + k - 1 - AnchorLoc)

\* from_list([0, 1, 2, 3, 4, 5], start=2022) was called on the table 2020..2025.
ExampleDone ==
    /\ SimDone("from_list")
    /\ df_index = ExampleIndex
    /\ sim[1].values = ValuesList(6)
    /\ sim[1].start = Some(2022)

\* C23 as stated: from_list([0, 1, 2, 3, 4, 5], start=2022) over 2020..2025
\* raises when the window starts at 2023, and returns [0, 1, 2, 3] over the
\* four keys from 2022.
C23_FailsAfterAnchor ==
    ExampleDone =>
        /\ At(df_index, sim[1].start_loc) = 2023 => sim[1].exc = "ValueError"
        /\ (At(df_index, sim[1].start_loc) = 2022 /\ At(df_index, sim[1].end_loc) = 2025)
              => (sim[1].exc = "None" /\ sim[1].result = <<0, 1, 2, 3>>)

\* C23 amended: from_list([0, 1, 2, 3, 4, 5], start=2022) over 2020..2025
\* returns [1, 2, 3] over 2023..2025 and [0, 1, 2, 3] over 2022..2025; it
\* raises ValueError exactly when the window starts before 2022.
C23_ReturnsAfterAnchor ==
    ExampleDone =>
        /\ (At(df_index, sim[1].start_loc) = 2023 /\ At(df_index, sim[1].end_loc) = 2025)
              => (sim[1].exc = "None" /\ sim[1].result = <<1, 2, 3>>)
        /\ (At(df_index, sim[1].start_loc) = 2022 /\ At(df_index, sim[1].end_loc) = 2025)
              => (sim[1].exc = "None" /\ sim[1].result = <<0, 1, 2, 3>>)
        /\ sim[1].exc = "ValueError" <=> At(df_index, sim[1].start_loc) < 2022
        /\ sim[1].exc \in {"None", "ValueError"}

\* C23 witness: the window 2023..2025 gets [1, 2, 3].
C23_Witness ==
    /\ ExampleDone
    /\ At(df_index, sim[1].start_loc) = 2023
    /\ At(df_index, sim[1].end_loc) = 2025
    /\ sim[1].result = <<1, 2, 3>>

\* The index key at the k-th position of the window, k from 1.
WindowKey(k) == At(df_index, sim[1].start_loc + k - 1)

\* C24: recurring returns, for each window key k, value when start <= k <= end
\* and default_value otherwise, an omitted start being the first key and an
\* omitted end the last key, for every supplied key (0 and negative included).
C24_Recurring ==
    SimDone("recurring") =>
        LET first == IF sim[1].start = None THEN At(df_index, 0) ELSE sim[1].start[1]
            final == IF sim[1].end = None THEN df_index[Len(df_index)] ELSE sim[1].end[1]
        IN /\ sim[1].exc = "None"
           /\ DOMAIN sim[1].result = ResultPositions
           /\ \A k \in ResultPositions :
                 sim[1].result[k] = IF first <= WindowKey(k) /\ WindowKey(k) <= final
                                    THEN sim[1].value[1] ELSE sim[1].default_value

\* C25: one_offs returns, for each window key k, the dictionary's entry for
\* k when it has one and default_value otherwise; entries under other keys,
\* in the index or not, change nothing and raise nothing.
C25_OneOffs ==
    SimDone("one_offs") =>
        /\ sim[1].exc = "None"
        /\ DOMAIN sim[1].result = ResultPositions
        /\ \A k \in ResultPositions :
              sim[1].result[k] = IF WindowKey(k) \in DOMAIN sim[1].one_offs
                                 THEN sim[1].one_offs[WindowKey(k)]
                                 ELSE sim[1].default_value

\* C25 witness: entries under the keys -1 (before the window), 0 (in it,
\* holding 0) and 2 (not in the index), default 9.
C25_Witness ==
    /\ SimReturned("one_offs")
    /\ df_index = <<-1, 0, 1>>
    /\ DOMAIN sim[1].one_offs = {-1, 0, 2}
    /\ sim[1].default_value = 9
    /\ sim[1].start_loc = 1
    /\ sim[1].result = <<0, 9>>

\* What a simulator is given: the series and values it captured or is
\* handed, and its window arguments.
SimInputs(c) == <<c.kind, c.s, c.s2, c.percent, c.value, c.reference, c.shift, c.values,
                  c.start, c.end, c.default_value, c.one_offs, c.start_loc, c.end_loc>>

C30_SuppliedBounds ==
    (LineDone /\ last.called) =>
        /\ (last.simulate_from # None /\ Contains(df_index, last.simulate_from[1]))
              => last.window.start_index = last.simulate_from[1]
        /\ (last.simulate_until # None /\ Contains(df_index, last.simulate_until[1]))
              => last.window.end_index = last.simulate_until[1]

\* ---- assumptions and BPStatus

HistoryBased(i) == assumptions[i].class = "HistoryBasedAssumption"

\* Every history-based assumption starts at a key of the index.
StartsInIndex ==
    \A i \in 1..Len(assumptions) : HistoryBased(i) => Contains(df_index, assumptions[i].start)

\* The chart's datasets for a history-based assumption: its value n times,
\* its history, the history's mean n times.
ExpectedDatasets(assumption) ==
    LET n == Len(assumption.history)
    IN <<[k \in 1..n |-> RatOfInt(assumption.value)],
         [k \in 1..n |-> RatOfInt(assumption.history[k])],
         [k \in 1..n |-> Rat(Sum(assumption.history, n), n)]>>

\* C27: BPStatus on a table with a history-based assumption whose
\* update_required is true succeeds and lists it with the 'H-assumption needs
\* update' message and the three datasets; one whose update_required is false
\* is not listed.
C27_HistoryAssumptionListed ==
    (report # None /\ StartsInIndex) =>
        \A i \in 1..Len(assumptions) :
            HistoryBased(i) =>
                IF assumptions[i].update_required
                THEN /\ report[1].exc = "None"
                     /\ \E j \in 1..Len(report[1].assumptions) :
                           report[1].assumptions[j] =
                               [message |-> "H-assumption needs update",
                                name |-> assumptions[i].name,
                                datasets |-> ExpectedDatasets(assumptions[i])]
                ELSE \A j \in 1..Len(report[1].assumptions) :
                        report[1].assumptions[j].name # assumptions[i].name

C29_MissingHistory ==
    (report # None /\ StartsInIndex) =>
        /\ report[1].exc = "None"
        /\ \A name \in DOMAIN columns :
              name \in report[1].lines
                 <=> (/\ history_size(name) > 0
                      /\ At(df_index, history_size(name) - 1) < today - max_history_lag(name))
        /\ report[1].summary = "Up to date"
              <=> (report[1].assumptions = <<>> /\ report[1].lines = {})

====
